---- MODULE Spec2Model ----
(***************************************************************************)
(* State-machine model of the LDAP -> Zabbix synchronisation in            *)
(* lib/zabbixconn.py (ZabbixConn.create_missing_groups, ZabbixConn.        *)
(* sync_users and the helpers they call) over an abstract Zabbix server    *)
(* and an abstract directory as seen through lib/ldapconn.py.              *)
(*                                                                         *)
(* Strings are sequences of one-character strings, so that str.lower(),    *)
(* str.strip(), the regular expression of _get_group_spec and Python's     *)
(* lexicographic string comparison are computed, not assumed.              *)
(***************************************************************************)
EXTENDS Integers, Sequences, FiniteSets, TLC

----------------------------------------------------------------------------
(* Bounds of the model.                                                    *)

\* in how many ways a start differs from the plain one (see Scenarios)
MaxFacts == 3
\* how many times the job is run in a row
MaxRuns == 2

----------------------------------------------------------------------------
(* Strings.                                                                *)

\* Python's None, for ids, names and dictionary results alike
None == <<"N", "o", "n", "e", "!">>

\* the id Zabbix never assigns: get_user_id's None
NoId == 0

\* str.lower() on one character of the alphabet in use
LowerChar(c) ==
    CASE c = "A" -> "a"
      [] c = "B" -> "b"
      [] c = "X" -> "x"
      [] OTHER -> c

\* str.lower()
Lower(s) == [i \in DOMAIN s |-> LowerChar(s[i])]

\* code point of a character of a version string
Ord(c) ==
    CASE c = "." -> 46
      [] c = "0" -> 48 [] c = "1" -> 49 [] c = "2" -> 50 [] c = "3" -> 51
      [] c = "4" -> 52 [] c = "5" -> 53 [] c = "6" -> 54 [] c = "7" -> 55
      [] c = "8" -> 56 [] c = "9" -> 57

IsDigit(c) == c \in {"0", "1", "2", "3", "4", "5", "6", "7", "8", "9"}

\* Python's a >= b on str: lexicographic by code point, a prefix is smaller
RECURSIVE StrGE(_, _)
StrGE(a, b) ==
    IF b = <<>> THEN TRUE
    ELSE IF a = <<>> THEN FALSE
    ELSE IF Ord(Head(a)) > Ord(Head(b)) THEN TRUE
    ELSE IF Ord(Head(a)) < Ord(Head(b)) THEN FALSE
    ELSE StrGE(Tail(a), Tail(b))

\* the whitespace of the alphabet in use: blank and line feed
IsSpace(c) == c \in {" ", "\n"}

\* str.strip()
RECURSIVE LStrip(_)
LStrip(s) == IF s # <<>> /\ IsSpace(Head(s)) THEN LStrip(Tail(s)) ELSE s

RECURSIVE RStrip(_)
RStrip(s) ==
    IF s # <<>> /\ IsSpace(s[Len(s)]) THEN RStrip(SubSeq(s, 1, Len(s) - 1)) ELSE s

Strip(s) == RStrip(LStrip(s))

\* the elements of a sequence
Range(s) == {s[i] : i \in DOMAIN s}

\* all orders in which the elements of a finite set can be visited
Orders(S) ==
    {q \in [1 .. Cardinality(S) -> S] : \A i, j \in 1 .. Cardinality(S) : i # j => q[i] # q[j]}

----------------------------------------------------------------------------
(* ZabbixConn._get_group_spec: re.match(r"^(.+):(\d+)$", group_spec).      *)

\* "$" matches at the end of the string and before a line feed that ends it:
\* the string up to there
UpToDollar(s) ==
    IF s # <<>> /\ s[Len(s)] = "\n" THEN {s, SubSeq(s, 1, Len(s) - 1)} ELSE {s}

\* the positions k of a ':' where the regular expression can split t: a
\* non-empty prefix without line feed ("." matches none), an all-digit,
\* non-empty rest
SpecSplits(t) ==
    {k \in 2 .. Len(t) - 1 :
        /\ t[k] = ":"
        /\ \A i \in 1 .. k - 1 : t[i] # "\n"
        /\ \A i \in k + 1 .. Len(t) : IsDigit(t[i])}

Max(S) == CHOOSE m \in S : \A n \in S : n <= m

\* ZabbixConn._get_group_spec without the strip() of the group name
GetGroupSpecUnstripped(s) ==
    IF \E t \in UpToDollar(s) : SpecSplits(t) # {}
    THEN LET t == CHOOSE u \in UpToDollar(s) : SpecSplits(u) # {}
             k == Max(SpecSplits(t))
         IN  [name |-> SubSeq(t, 1, k - 1),
              role_id |-> Strip(SubSeq(t, k + 1, Len(t)))]
    ELSE [name |-> s, role_id |-> None]

GetGroupSpec(s) ==
    IF \E t \in UpToDollar(s) : SpecSplits(t) # {}
    THEN LET t == CHOOSE u \in UpToDollar(s) : SpecSplits(u) # {}
             k == Max(SpecSplits(t))
         IN  [name |-> Strip(SubSeq(t, 1, k - 1)),
              role_id |-> Strip(SubSeq(t, k + 1, Len(t)))]
    ELSE [name |-> s, role_id |-> None]

----------------------------------------------------------------------------
(* ZabbixConn.convert_severity.                                            *)

\* str.split(sep): the parts of s between the separators
RECURSIVE Split(_, _)
Split(s, sep) ==
    IF \A i \in DOMAIN s : s[i] # sep THEN <<s>>
    ELSE LET k == CHOOSE i \in DOMAIN s : s[i] = sep /\ \A j \in 1 .. i - 1 : s[j] # sep
         IN  <<SubSeq(s, 1, k - 1)>> \o Split(SubSeq(s, k + 1, Len(s)), sep)

Disaster == <<"D", "i", "s", "a", "s", "t", "e", "r">>
High == <<"H", "i", "g", "h">>
Average == <<"A", "v", "e", "r", "a", "g", "e">>
Warning == <<"W", "a", "r", "n", "i", "n", "g">>
Information == <<"I", "n", "f", "o", "r", "m", "a", "t", "i", "o", "n">>
NotClassified == <<"N", "o", "t", " ", "C", "l", "a", "s", "s", "i", "f", "i", "e", "d">>

\* the keys of sev_entries, in the order of the OrderedDict
SevEntries == <<Disaster, High, Average, Warning, Information, NotClassified>>

\* int(str_bitmask, 2)
RECURSIVE IntOfBits(_)
IntOfBits(bits) ==
    IF bits = <<>> THEN 0
    ELSE 2 * IntOfBits(SubSeq(bits, 1, Len(bits) - 1))
         + (IF bits[Len(bits)] = "1" THEN 1 ELSE 0)

DigitChar(d) ==
    CASE d = 0 -> "0" [] d = 1 -> "1" [] d = 2 -> "2" [] d = 3 -> "3" [] d = 4 -> "4"
      [] d = 5 -> "5" [] d = 6 -> "6" [] d = 7 -> "7" [] d = 8 -> "8" [] d = 9 -> "9"

\* str(n) for a natural number
RECURSIVE Str(_)
Str(n) == IF n < 10 THEN <<DigitChar(n)>> ELSE Str(n \div 10) \o <<DigitChar(n % 10)>>

\* re.match(r"\d+", s): s begins with a digit
BeginsWithDigit(s) == s # <<>> /\ IsDigit(s[1])

\* convert_severity without the strip() of each element
ConvertSeverityUnstripped(sev) ==
    LET converted == Strip(sev)
        parts == Split(converted, ",")
        names == {parts[i] : i \in DOMAIN parts}
        str_bitmask == [i \in DOMAIN SevEntries |->
                           IF SevEntries[i] \in names THEN "1" ELSE "0"]
    IN  IF BeginsWithDigit(converted)
        THEN [ok |-> TRUE, value |-> converted]
        ELSE IF \E n \in names : n \notin Range(SevEntries)
        THEN [ok |-> FALSE, value |-> None]
        ELSE [ok |-> TRUE, value |-> Str(IntOfBits(str_bitmask))]

\* ZabbixConn.convert_severity: ok is false when it raises
ConvertSeverity(sev) ==
    LET converted == Strip(sev)
        parts == Split(converted, ",")
        names == {Strip(parts[i]) : i \in DOMAIN parts}
        str_bitmask == [i \in DOMAIN SevEntries |->
                           IF SevEntries[i] \in names THEN "1" ELSE "0"]
    IN  IF BeginsWithDigit(converted)
        THEN [ok |-> TRUE, value |-> converted]
        ELSE IF \E n \in names : n \notin Range(SevEntries)
        THEN [ok |-> FALSE, value |-> None]
        ELSE [ok |-> TRUE, value |-> Str(IntOfBits(str_bitmask))]

----------------------------------------------------------------------------
(* The names in use.                                                       *)

\* account names: two that differ only in case, and a third
UserA == <<"a">>
UserUpperA == <<"A">>
UserB == <<"b">>
TargetNames == <<UserA, UserUpperA, UserB>>

\* the directory's uid values: no two differ only in case
DirUsers == {UserUpperA, UserB}

\* Zabbix user groups
GroupX == <<"x">>
GroupY == <<"y">>
GroupAll == <<"u">>

\* the configured group specifications (config.ldap_groups): a bare name and
\* a name with a role id
SpecX == <<"x">>
SpecY == <<"y", ":", "3">>

\* the user groups the server lists before the first run, in the order
\* usergroup.get returns them
GroupLists == {<<GroupAll, GroupX, GroupY>>, <<GroupX, GroupY, GroupAll>>, <<GroupX, GroupAll>>}

\* api_version() strings
Version32 == <<"3", ".", "2">>
Version34 == <<"3", ".", "4">>

\* the directory attribute holding the media address (config.ldap_media)
MailAttr == <<"m">>

\* the [media] options (config.media_opt), a list of (key, value) pairs
OnlyCreateKey == <<"o", "c">>
SeverityKey == <<"s", "e", "v">>
TrueValue == <<"t", "r", "u", "e">>

----------------------------------------------------------------------------
VARIABLES
    config,     \* the configuration object ZabbixConn.__init__ copies
    zbx,        \* the Zabbix server: users, user groups, memberships, medias
    ldap,       \* the directory: per group name the search result
    run,        \* 1 for the first run of the job, 2 for the next, ...
    pc,         \* where the run is
    group_index,                    \* position of the for loop over ldap_groups
    zabbix_alldirusergroup_id,      \* locals of sync_users, by their names
    zabbix_alldirusergroup_users,
    zabbix_all_users,
    ldap_users,
    zabbix_group_id,
    zabbix_group_users,
    missing_users,
    absent_users,
    todo,       \* the elements the running for loop has not visited yet
    calls,      \* the mutating API calls of this run, in order
    log,        \* the actions this run logged it takes (logger.info), in order
    pass0,      \* the server as it was when the current group's pass began
    first,      \* calls, log and outcome of the run before this one
    severity,               \* the argument of a call of convert_severity
    converted_severity,     \* what that call returned or that it raised
    group_spec,             \* the argument of a call of _get_group_spec
    group_spec_result,      \* what that call returned
    lookup,                 \* an LDAPConn and what its directory answers
    lookup_result           \* what get_group_members returned, and its queries

vars == <<config, zbx, ldap, run, pc, group_index, zabbix_alldirusergroup_id,
          zabbix_alldirusergroup_users, zabbix_all_users, ldap_users,
          zabbix_group_id, zabbix_group_users, missing_users, absent_users,
          todo, calls, log, pass0, first, severity, converted_severity,
          group_spec, group_spec_result, lookup, lookup_result>>

locals == <<zabbix_all_users, ldap_users, zabbix_group_id, zabbix_group_users,
            missing_users, absent_users>>

\* argument and result of the two functions that are also called on their own
called == <<severity, converted_severity, group_spec, group_spec_result, lookup,
           lookup_result>>

----------------------------------------------------------------------------
(* The Zabbix server behind pyzabbix.                                      *)

\* user.get(output='extend')
GetUsers(z) == z.users

\* ZabbixConn.get_users_names
GetUsersNames(z, preserve) ==
    IF preserve
    THEN {u.alias : u \in GetUsers(z)}
    ELSE {Lower(u.alias) : u \in GetUsers(z)}

\* get_user_id that lower-cases the name it looks up as well
GetUserIdFolded(z, user) ==
    LET userids == {u.userid : u \in {v \in GetUsers(z) : Lower(v.alias) = Lower(user)}}
    IN  IF Cardinality(userids) = 1 THEN CHOOSE i \in userids : TRUE ELSE NoId

\* ZabbixConn.get_user_id
GetUserId(z, user) ==
    LET userids == {u.userid : u \in {v \in GetUsers(z) : Lower(v.alias) = user}}
    IN  IF Cardinality(userids) = 1 THEN CHOOSE i \in userids : TRUE ELSE NoId

\* ZabbixConn.get_groups
GetGroups(z) == z.groups

\* ZabbixConn.get_group_members
GetGroupMembers(z, groupid) ==
    {u.alias : u \in {v \in z.users : <<groupid, v.userid>> \in z.members}}

\* the ids of the members of a group: usergroup.get(selectUsers)
GroupUserIds(z, groupid) == {m[2] : m \in {n \in z.members : n[1] = groupid}}

UserIds(z) == {u.userid : u \in z.users}

\* usergroup.create: the new group comes last in the listing
UsergroupCreate(z, name) ==
    [z EXCEPT !.groups = Append(@, [name |-> name, usrgrpid |-> Len(@) + 1])]

\* usergroup.update(usrgrpid, userids): the membership becomes exactly userids;
\* the API refuses ids of no user
UsergroupUpdateOk(z, userids) == userids \subseteq UserIds(z)

UsergroupUpdate(z, groupid, userids) ==
    [z EXCEPT !.members = {m \in @ : m[1] # groupid} \cup {<<groupid, i>> : i \in userids}]

\* usergroup.massadd(usrgrpids, userids)
UsergroupMassadd(z, groupid, userids) ==
    [z EXCEPT !.members = @ \cup {<<groupid, i>> : i \in userids}]

\* user.create: refused when the name is taken
UserCreateOk(z, alias) == \A u \in z.users : u.alias # alias

UserCreate(z, alias, groupid) ==
    [z EXCEPT !.lastid = @ + 1,
              !.users = @ \cup {[userid |-> z.lastid + 1, alias |-> alias]},
              !.members = @ \cup {<<groupid, z.lastid + 1>>}]

\* user.delete(userid): the user goes with its memberships and medias
UserDeleteOk(z, userid) == userid \in UserIds(z)

UserDelete(z, userid) ==
    [z EXCEPT !.users = {u \in @ : u.userid # userid},
              !.members = {m \in @ : m[2] # userid},
              !.medias = {m \in @ : m.userid # userid}]

\* mediatype.get(filter={'name': name})
MediatypeGet(z, name) == {m \in z.mediatypes : m.name = name}

\* user.update(userid, user_medias=[media]): the user's medias become exactly
\* this one; the API refuses the id of no user
UserUpdateMedias(z, userid, mediatypeid, sendto) ==
    [z EXCEPT !.medias = {m \in @ : m.userid # userid}
                  \cup {[userid |-> userid, mediatypeid |-> mediatypeid, sendto |-> sendto]}]

\* user.updatemedia(users, medias): one more media for the user
UserAddMedia(z, userid, mediatypeid, sendto) ==
    [z EXCEPT !.medias = @ \cup {[userid |-> userid, mediatypeid |-> mediatypeid, sendto |-> sendto]}]

\* user.deletemedia for every media of one type of one user
UserDeleteMedias(z, userid, mediatypeid) ==
    [z EXCEPT !.medias = {m \in @ : ~(m.userid = userid /\ m.mediatypeid = mediatypeid)}]

----------------------------------------------------------------------------
(* The directory behind LDAPConn.                                          *)

\* LDAPConn.get_group_members: None when the search finds no entry, else a
\* dict from uid to DN; the DN of a user is modelled by the uid it carries
LdapGetGroupMembers(l, group) ==
    IF group \in DOMAIN l.groups /\ l.groups[group].found
    THEN [found |-> TRUE, members |-> [k \in l.groups[group].members |-> k]]
    ELSE [found |-> FALSE, members |-> <<>>]

\* LDAPConn.get_user_media: None when the entry or the attribute is unset
LdapGetUserMedia(l, dn, attr) == IF dn \in l.media THEN dn ELSE None

----------------------------------------------------------------------------
(* The methods of ZabbixConn that change the server.  Each yields the      *)
(* calls it issues, whether one of them raised, and the server afterwards. *)

\* one mutating API call: the method, the action it carries out (op, group
\* name, user name as the engine holds it), its arguments and the answer
Call(api, op, group, user, usrgrpid, userids, ok) ==
    [api |-> api, op |-> op, group |-> group, user |-> user,
     usrgrpid |-> usrgrpid, userids |-> userids, ok |-> ok]

\* one logged action
Intent(op, group, user) == [op |-> op, group |-> group, user |-> user]

IntentOf(c) == Intent(c.op, c.group, c.user)

Result(ok, z, cs) == [ok |-> ok, z |-> z, calls |-> cs]

\* ZabbixConn.create_group
CreateGroup(z, group) ==
    Result(TRUE, UsergroupCreate(z, group),
           <<Call("usergroup.create", "create_group", group, None, Len(z.groups) + 1, {}, TRUE)>>)

\* create_user that leaves the new account out of the group
CreateUserOutsideGroup(z, user, group, groupid) ==
    LET ok == UserCreateOk(z, user)
    IN  Result(ok, IF ok THEN UserCreate(z, user, NoId) ELSE z,
               <<Call("user.create", "create_user", group, user, NoId, {z.lastid + 1}, ok)>>)

\* ZabbixConn.create_user
CreateUser(z, user, group, groupid) ==
    LET ok == UserCreateOk(z, user)
    IN  Result(ok, IF ok THEN UserCreate(z, user, groupid) ELSE z,
               <<Call("user.create", "create_user", group, user, groupid, {z.lastid + 1}, ok)>>)

\* ZabbixConn.delete_user; refused: the server turns the deletion down
DeleteUser(z, user, group, refused) ==
    LET userid == GetUserId(z, user)
        ok == UserDeleteOk(z, userid) /\ ~refused
    IN  Result(ok, IF ok THEN UserDelete(z, userid) ELSE z,
               <<Call("user.delete", "delete_user", group, user, NoId, {userid}, ok)>>)

\* update_user without its "if not self.dryrun"
UpdateUserUngated(z, cfg, op, user, group, group_id) ==
    LET userid == GetUserId(z, user)
    IN  IF StrGE(cfg.api_version, Version34)
        THEN LET user_ids == GroupUserIds(z, group_id) \cup {userid}
                 ok == UsergroupUpdateOk(z, user_ids)
             IN  Result(ok, IF ok THEN UsergroupUpdate(z, group_id, user_ids) ELSE z,
                        <<Call("usergroup.update", op, group, user, group_id, user_ids, ok)>>)
        ELSE LET ok == UsergroupUpdateOk(z, {userid})
             IN  Result(ok, IF ok THEN UsergroupMassadd(z, group_id, {userid}) ELSE z,
                        <<Call("usergroup.massadd", op, group, user, group_id, {userid}, ok)>>)

\* ZabbixConn.update_user
UpdateUser(z, cfg, op, user, group, group_id) ==
    LET userid == GetUserId(z, user)
    IN  IF StrGE(cfg.api_version, Version34)
        THEN LET user_ids == GroupUserIds(z, group_id) \cup {userid}
                 ok == UsergroupUpdateOk(z, user_ids)
             IN  IF ~cfg.dryrun
                 THEN Result(ok, IF ok THEN UsergroupUpdate(z, group_id, user_ids) ELSE z,
                             <<Call("usergroup.update", op, group, user, group_id, user_ids, ok)>>)
                 ELSE Result(TRUE, z, <<>>)
        ELSE LET ok == UsergroupUpdateOk(z, {userid})
             IN  IF ~cfg.dryrun
                 THEN Result(ok, IF ok THEN UsergroupMassadd(z, group_id, {userid}) ELSE z,
                             <<Call("usergroup.massadd", op, group, user, group_id, {userid}, ok)>>)
                 ELSE Result(TRUE, z, <<>>)

\* ZabbixConn.remove_user
RemoveUser(z, cfg, user, group, group_id) ==
    LET userid == GetUserId(z, user)
    IN  IF StrGE(cfg.api_version, Version34)
        THEN LET user_ids == {i \in GroupUserIds(z, group_id) : i # userid}
                 ok == UsergroupUpdateOk(z, user_ids)
             IN  IF ~cfg.dryrun
                 THEN Result(ok, IF ok THEN UsergroupUpdate(z, group_id, user_ids) ELSE z,
                             <<Call("usergroup.update", "remove_user", group, user, group_id, user_ids, ok)>>)
                 ELSE Result(TRUE, z, <<>>)
        ELSE Result(TRUE, z, <<>>)

\* ZabbixConn.get_mediatype_id: raises unless exactly one media type matches
GetMediatypeIdOk(z, name) == Cardinality(MediatypeGet(z, Strip(name))) = 1

GetMediatypeId(z, name) == (CHOOSE m \in MediatypeGet(z, Strip(name)) : TRUE).mediatypeid

\* ZabbixConn.delete_media_by_description, past its get_mediatype_id:
\* user.get(userids=None) lists every user, and the first listed is taken
DeleteMediaByDescription(z, user, group, description, victim) ==
    LET userid == GetUserId(z, user)
        mediatypeid == GetMediatypeId(z, description)
        whose == IF userid = NoId THEN victim ELSE userid
        media_ids == {m \in z.medias : m.userid = whose /\ m.mediatypeid = mediatypeid}
    IN  IF media_ids # {}
        THEN Result(TRUE, UserDeleteMedias(z, whose, mediatypeid),
                    <<Call("user.deletemedia", "update_media", group, user, NoId, {whose}, TRUE)>>)
        ELSE Result(TRUE, z, <<>>)

\* ZabbixConn.update_media
UpdateMedia(z, cfg, user, group, description, sendto, victim) ==
    LET userid == GetUserId(z, user)
    IN  IF ~GetMediatypeIdOk(z, description)
        THEN Result(FALSE, z, <<>>)
        ELSE LET mediatypeid == GetMediatypeId(z, description)
                 ok == userid \in UserIds(z)
             IN  IF StrGE(cfg.api_version, Version34)
                 THEN Result(ok, IF ok THEN UserUpdateMedias(z, userid, mediatypeid, sendto) ELSE z,
                             <<Call("user.update", "update_media", group, user, NoId, {userid}, ok)>>)
                 ELSE LET d == DeleteMediaByDescription(z, user, group, description, victim)
                      IN  Result(ok, IF ok THEN UserAddMedia(d.z, userid, mediatypeid, sendto) ELSE d.z,
                                 d.calls \o <<Call("user.updatemedia", "update_media", group, user,
                                                   NoId, {userid}, ok)>>)

----------------------------------------------------------------------------
(* One run of the job: create_missing_groups(), then sync_users().         *)

\* group_name of every configured specification, in order
ConfiguredNames(cfg) == [i \in DOMAIN cfg.ldap_groups |-> GetGroupSpec(cfg.ldap_groups[i]).name]

RECURSIVE CreateGroups(_, _)
CreateGroups(z, names) ==
    IF names = <<>> THEN Result(TRUE, z, <<>>)
    ELSE LET r == CreateGroup(z, Head(names))
             rest == CreateGroups(r.z, Tail(names))
         IN  Result(TRUE, rest.z, r.calls \o rest.calls)

\* ZabbixConn.create_missing_groups
CreateMissingGroups ==
    /\ pc = "create_missing_groups"
    /\ LET groups == Range(ConfiguredNames(config))
           missing_groups == groups \ {g.name : g \in Range(GetGroups(zbx))}
       IN  \E order \in Orders(missing_groups) :
              LET r == CreateGroups(zbx, order)
              IN  /\ log' = log \o [i \in DOMAIN order |-> Intent("create_group", order[i], None)]
                  /\ zbx' = IF ~config.dryrun THEN r.z ELSE zbx
                  /\ calls' = IF ~config.dryrun THEN calls \o r.calls ELSE calls
    /\ pc' = "sync_users"
    /\ UNCHANGED <<config, ldap, run, group_index, zabbix_alldirusergroup_id,
                   zabbix_alldirusergroup_users, locals, todo, pass0, first>>
    /\ UNCHANGED called

\* sync_users up to its loop over the groups: the id and the members of the
\* group of all directory users
SyncUsersBegin ==
    /\ pc = "sync_users"
    /\ IF config.alldirusergroup # None
       THEN IF GetGroups(zbx) = <<>>
            THEN /\ pc' = "aborted"
                 /\ UNCHANGED <<zabbix_alldirusergroup_id, zabbix_alldirusergroup_users>>
            ELSE LET g == GetGroups(zbx)[Len(GetGroups(zbx))]
                 IN  /\ zabbix_alldirusergroup_id' = g.usrgrpid
                     /\ zabbix_alldirusergroup_users' = GetGroupMembers(zbx, g.usrgrpid)
                     /\ pc' = "group"
       ELSE /\ zabbix_alldirusergroup_id' = NoId
            /\ zabbix_alldirusergroup_users' = {}
            /\ pc' = "group"
    /\ group_index' = 1
    /\ UNCHANGED <<config, zbx, ldap, run, locals, todo, calls, log, pass0, first>>
    /\ UNCHANGED called

\* the keys of ldap_users: lower-cased unless the account ids are preserved
LdapUsers(cfg, members) ==
    IF cfg.preserve_accountids
    THEN members
    ELSE [k \in {Lower(m) : m \in DOMAIN members} |->
             members[CHOOSE m \in DOMAIN members : Lower(m) = k]]

\* the ids of the server's groups of a name, in listing order
GroupIdsNamed(z, name) ==
    LET gs == SelectSeq(GetGroups(z), LAMBDA g : g.name = name)
    IN  [i \in DOMAIN gs |-> gs[i].usrgrpid]

\* the head of the loop body without "Do nothing if LDAP group contains no users"
GroupBeginUnguarded ==
    /\ pc = "group"
    /\ group_index <= Len(config.ldap_groups)
    /\ LET group_name == GetGroupSpec(config.ldap_groups[group_index]).name
           found == LdapGetGroupMembers(ldap, group_name)
           users == LdapUsers(config, found.members)
           ids == GroupIdsNamed(zbx, group_name)
           gid == ids[Len(ids)]
       IN  /\ zabbix_all_users' = GetUsersNames(zbx, config.preserve_accountids)
           /\ pass0' = zbx
           /\ IF ~found.found
              THEN /\ pc' = "aborted"
                   /\ UNCHANGED <<group_index, ldap_users, zabbix_group_id, zabbix_group_users,
                                  missing_users, todo>>
              ELSE IF ids = <<>>
              THEN /\ pc' = "aborted"
                   /\ ldap_users' = users
                   /\ UNCHANGED <<group_index, zabbix_group_id, zabbix_group_users,
                                  missing_users, todo>>
              ELSE /\ pc' = "add_missing"
                   /\ ldap_users' = users
                   /\ zabbix_group_id' = gid
                   /\ zabbix_group_users' = GetGroupMembers(zbx, gid)
                   /\ missing_users' = DOMAIN users \ GetGroupMembers(zbx, gid)
                   /\ todo' = DOMAIN users \ GetGroupMembers(zbx, gid)
                   /\ UNCHANGED group_index
    /\ UNCHANGED <<config, zbx, ldap, run, zabbix_alldirusergroup_id,
                   zabbix_alldirusergroup_users, absent_users, calls, log, first>>
    /\ UNCHANGED called

\* the head of the loop body of sync_users, down to missing_users
GroupBegin ==
    /\ pc = "group"
    /\ group_index <= Len(config.ldap_groups)
    /\ LET group_name == GetGroupSpec(config.ldap_groups[group_index]).name
           found == LdapGetGroupMembers(ldap, group_name)
           users == LdapUsers(config, found.members)
           ids == GroupIdsNamed(zbx, group_name)
           gid == ids[Len(ids)]
       IN  /\ zabbix_all_users' = GetUsersNames(zbx, config.preserve_accountids)
           /\ pass0' = zbx
           /\ IF ~found.found
              THEN /\ pc' = "aborted"
                   /\ UNCHANGED <<group_index, ldap_users, zabbix_group_id, zabbix_group_users,
                                  missing_users, todo>>
              ELSE IF DOMAIN users = {} /\ ~config.deleteorphans /\ ~config.removeabsent
              THEN /\ pc' = "group"
                   /\ group_index' = group_index + 1
                   /\ ldap_users' = users
                   /\ UNCHANGED <<zabbix_group_id, zabbix_group_users, missing_users, todo>>
              ELSE IF ids = <<>>
              THEN /\ pc' = "aborted"
                   /\ ldap_users' = users
                   /\ UNCHANGED <<group_index, zabbix_group_id, zabbix_group_users,
                                  missing_users, todo>>
              ELSE /\ pc' = "add_missing"
                   /\ ldap_users' = users
                   /\ zabbix_group_id' = gid
                   /\ zabbix_group_users' = GetGroupMembers(zbx, gid)
                   /\ missing_users' = DOMAIN users \ GetGroupMembers(zbx, gid)
                   /\ todo' = DOMAIN users \ GetGroupMembers(zbx, gid)
                   /\ UNCHANGED group_index
    /\ UNCHANGED <<config, zbx, ldap, run, zabbix_alldirusergroup_id,
                   zabbix_alldirusergroup_users, absent_users, calls, log, first>>
    /\ UNCHANGED called

\* the name of the group being processed
GroupName == GetGroupSpec(config.ldap_groups[group_index]).name

\* one round of "for each_user in missing_users"
AddMissingUser ==
    /\ pc = "add_missing"
    /\ \E each_user \in todo :
          /\ todo' = todo \ {each_user}
          /\ IF each_user \notin zabbix_all_users
             THEN LET r == CreateUser(zbx, each_user, GroupName, zabbix_group_id)
                  IN  /\ log' = log \o [i \in DOMAIN config.user_opt |->
                                           Intent("create_user", GroupName, each_user)]
                      /\ IF ~config.dryrun
                         THEN /\ zbx' = r.z
                              /\ calls' = calls \o r.calls
                              /\ pc' = IF r.ok THEN pc ELSE "aborted"
                         ELSE UNCHANGED <<zbx, calls, pc>>
                      /\ zabbix_all_users' = zabbix_all_users \cup {each_user}
             ELSE LET r == UpdateUser(zbx, config, "update_user", each_user, GroupName, zabbix_group_id)
                  IN  /\ log' = Append(log, Intent("update_user", GroupName, each_user))
                      /\ IF ~config.dryrun
                         THEN /\ zbx' = r.z
                              /\ calls' = calls \o r.calls
                              /\ pc' = IF r.ok THEN pc ELSE "aborted"
                         ELSE UNCHANGED <<zbx, calls, pc>>
                      /\ UNCHANGED zabbix_all_users
    /\ UNCHANGED <<config, ldap, run, group_index, zabbix_alldirusergroup_id,
                   zabbix_alldirusergroup_users, ldap_users, zabbix_group_id,
                   zabbix_group_users, missing_users, absent_users, pass0, first>>
    /\ UNCHANGED called

\* "if zabbix_alldirusergroup_id:" and missing_allusers
AllUsersBegin ==
    /\ pc = "add_missing"
    /\ todo = {}
    /\ todo' = IF zabbix_alldirusergroup_id # NoId
               THEN DOMAIN ldap_users \ zabbix_alldirusergroup_users
               ELSE {}
    /\ pc' = "add_all"
    /\ UNCHANGED <<config, zbx, ldap, run, group_index, zabbix_alldirusergroup_id,
                   zabbix_alldirusergroup_users, locals, calls, log, pass0, first>>
    /\ UNCHANGED called

\* one round of "for each_user in missing_allusers"
AddToAllUsers ==
    /\ pc = "add_all"
    /\ \E each_user \in todo :
          LET r == UpdateUser(zbx, config, "update_user", each_user, config.alldirusergroup,
                              zabbix_alldirusergroup_id)
          IN  /\ todo' = todo \ {each_user}
              /\ log' = Append(log, Intent("update_user", config.alldirusergroup, each_user))
              /\ zbx' = r.z
              /\ calls' = calls \o r.calls
              /\ pc' = IF r.ok THEN pc ELSE "aborted"
    /\ UNCHANGED <<config, ldap, run, group_index, zabbix_alldirusergroup_id,
                   zabbix_alldirusergroup_users, locals, pass0, first>>
    /\ UNCHANGED called

\* absent_users
ExtraBegin ==
    /\ pc = "add_all"
    /\ todo = {}
    /\ absent_users' = zabbix_group_users \ DOMAIN ldap_users
    /\ todo' = zabbix_group_users \ DOMAIN ldap_users
    /\ pc' = "extra"
    /\ UNCHANGED <<config, zbx, ldap, run, group_index, zabbix_alldirusergroup_id,
                   zabbix_alldirusergroup_users, zabbix_all_users, ldap_users,
                   zabbix_group_id, zabbix_group_users, missing_users, calls, log,
                   pass0, first>>
    /\ UNCHANGED called

\* one round of "for each_user in absent_users"; refused: whether the server
\* turns a deletion down
HandleExtraUser ==
    /\ pc = "extra"
    /\ \E each_user \in todo, refused \in BOOLEAN :
          /\ todo' = todo \ {each_user}
          /\ IF each_user \notin zabbix_alldirusergroup_users
             THEN /\ ~refused
                  /\ UNCHANGED <<zbx, calls, log>>
             ELSE IF config.deleteorphans
             THEN LET r == DeleteUser(zbx, each_user, GroupName, refused)
                  IN  /\ log' = Append(log, Intent("delete_user", GroupName, each_user))
                      /\ IF ~config.dryrun
                         THEN zbx' = r.z /\ calls' = calls \o r.calls
                         ELSE ~refused /\ UNCHANGED <<zbx, calls>>
             ELSE IF config.removeabsent
             THEN LET r == RemoveUser(zbx, config, each_user, GroupName, zabbix_group_id)
                  IN  /\ ~refused
                      /\ log' = Append(log, Intent("remove_user", GroupName, each_user))
                      /\ IF ~config.dryrun
                         THEN zbx' = r.z /\ calls' = calls \o r.calls
                         ELSE UNCHANGED <<zbx, calls>>
             ELSE /\ ~refused
                  /\ UNCHANGED <<zbx, calls, log>>
    /\ UNCHANGED <<config, ldap, run, pc, group_index, zabbix_alldirusergroup_id,
                   zabbix_alldirusergroup_users, locals, pass0, first>>
    /\ UNCHANGED called

\* whether the media options hold onlycreate = true
OnlyCreate(media_opt) ==
    \E i \in DOMAIN media_opt : media_opt[i][1] = OnlyCreateKey /\ Lower(media_opt[i][2]) = TrueValue

\* convert_severity raises on a severity entry of the media options
SeverityRaises(media_opt) ==
    \E i \in DOMAIN media_opt :
       media_opt[i][1] = SeverityKey /\ ~ConvertSeverity(media_opt[i][2]).ok

\* the media step on the members the pass found at its beginning, not read
\* again
MediaBeginStale ==
    /\ pc = "extra"
    /\ todo = {}
    /\ IF SeverityRaises(config.media_opt)
       THEN /\ pc' = "aborted"
            /\ UNCHANGED <<zabbix_group_users, todo>>
       ELSE LET users == IF OnlyCreate(config.media_opt)
                         THEN missing_users
                         ELSE zabbix_group_users
            IN  /\ zabbix_group_users' = users
                /\ todo' = users
                /\ pc' = "media"
    /\ UNCHANGED <<config, zbx, ldap, run, group_index, zabbix_alldirusergroup_id,
                   zabbix_alldirusergroup_users, zabbix_all_users, ldap_users,
                   zabbix_group_id, missing_users, absent_users, calls, log, pass0, first>>
    /\ UNCHANGED called

\* the media options are filtered and the users to update are chosen
MediaBegin ==
    /\ pc = "extra"
    /\ todo = {}
    /\ IF SeverityRaises(config.media_opt)
       THEN /\ pc' = "aborted"
            /\ UNCHANGED <<zabbix_group_users, todo>>
       ELSE LET users == IF OnlyCreate(config.media_opt)
                         THEN missing_users
                         ELSE GetGroupMembers(zbx, zabbix_group_id)
            IN  /\ zabbix_group_users' = users
                /\ todo' = users
                /\ pc' = "media"
    /\ UNCHANGED <<config, zbx, ldap, run, group_index, zabbix_alldirusergroup_id,
                   zabbix_alldirusergroup_users, zabbix_all_users, ldap_users,
                   zabbix_group_id, missing_users, absent_users, calls, log, pass0, first>>
    /\ UNCHANGED called

\* one round of "for each_user in set(zabbix_group_users)"
UpdateUserMedia ==
    /\ pc = "media"
    /\ \E name \in todo :
          LET each_user == IF ~config.preserve_accountids THEN Lower(name) ELSE name
          IN  /\ todo' = todo \ {name}
              /\ IF config.ldap_media = None
                 THEN UNCHANGED <<zbx, calls, log, pc>>
                 ELSE IF each_user \notin DOMAIN ldap_users
                 THEN /\ pc' = "aborted"
                      /\ UNCHANGED <<zbx, calls, log>>
                 ELSE LET sendto == LdapGetUserMedia(ldap, ldap_users[each_user], config.ldap_media)
                      IN  IF each_user \notin absent_users /\ sendto # None /\ ~config.dryrun
                          THEN \E victim \in UserIds(zbx) :
                                  LET r == UpdateMedia(zbx, config, each_user, GroupName,
                                                       config.media_name, sendto, victim)
                                  IN  /\ log' = Append(log, Intent("update_media", GroupName, each_user))
                                      /\ zbx' = r.z
                                      /\ calls' = calls \o r.calls
                                      /\ pc' = IF r.ok THEN pc ELSE "aborted"
                          ELSE UNCHANGED <<zbx, calls, log, pc>>
    /\ UNCHANGED <<config, ldap, run, group_index, zabbix_alldirusergroup_id,
                   zabbix_alldirusergroup_users, locals, pass0, first>>
    /\ UNCHANGED called

\* "Done for group" that goes back to the group before
GroupDoneBackwards ==
    /\ pc = "media"
    /\ todo = {}
    /\ group_index' = IF group_index > 1 THEN group_index - 1 ELSE group_index + 1
    /\ pc' = "group"
    /\ UNCHANGED <<config, zbx, ldap, run, zabbix_alldirusergroup_id,
                   zabbix_alldirusergroup_users, locals, todo, calls, log, pass0, first>>
    /\ UNCHANGED called

\* "Done for group": on to the next group
GroupDone ==
    /\ pc = "media"
    /\ todo = {}
    /\ group_index' = group_index + 1
    /\ pc' = "group"
    /\ UNCHANGED <<config, zbx, ldap, run, zabbix_alldirusergroup_id,
                   zabbix_alldirusergroup_users, locals, todo, calls, log, pass0, first>>
    /\ UNCHANGED called

\* past the last group: ldap_conn.disconnect()
Disconnect ==
    /\ pc = "group"
    /\ group_index > Len(config.ldap_groups)
    /\ pc' = "done"
    /\ UNCHANGED <<config, zbx, ldap, run, group_index, zabbix_alldirusergroup_id,
                   zabbix_alldirusergroup_users, locals, todo, calls, log, pass0, first>>
    /\ UNCHANGED called

\* the job is run again: same configuration but for the dry-run switch, which
\* is off from the second run on, same directory, the server as the run left it
Rerun ==
    /\ pc = "done"
    /\ run < MaxRuns
    /\ run' = run + 1
    /\ config' = [config EXCEPT !.dryrun = FALSE]
    /\ first' = [calls |-> calls, log |-> log, dryrun |-> config.dryrun, zbx |-> zbx]
    /\ calls' = <<>>
    /\ log' = <<>>
    /\ pc' = "create_missing_groups"
    /\ group_index' = 0
    /\ todo' = {}
    /\ UNCHANGED <<zbx, ldap, zabbix_alldirusergroup_id, zabbix_alldirusergroup_users,
                   locals, pass0>>
    /\ UNCHANGED called

----------------------------------------------------------------------------
(* The states the job can start in.                                        *)

MediaName == <<"E">>

\* the [user] options (config.user_opt) as (key, value) pairs
UserOpt == << <<"type", "3">> >>

(* Every setting of delete-orphans, remove-absent and the group of all     *)
(* directory users is combined with every scenario.  A scenario is what    *)
(* sets a start apart from the plain one: the plain configuration (a real  *)
(* run, lower-cased names, no media attribute, a server of version 3.4), a *)
(* server without accounts and a directory whose groups exist and are      *)
(* empty.  A start differs from it in at most MaxFacts ways.               *)
Fact(k, u, g) == [k |-> k, u |-> u, g |-> g]

Flag(f) == Fact("flag", f, "")

Flags ==
    {Flag(f) : f \in {"dryrun", "preserve_accountids", "ldap_media", "onlycreate", "old_api"}}

\* an account in a group, an account in none of the three groups, a member
\* of a directory group, a directory group that does not exist
FactsOf(listing) ==
    Flags
    \cup {Fact("member", n[1], g[1]) : n \in Range(TargetNames), g \in Range(listing)}
    \cup {Fact("account", n[1], "") : n \in Range(TargetNames)}
    \cup {Fact("dir", n[1], g[1]) : n \in DirUsers, g \in {GroupX, GroupY}}
    \cup {Fact("notfound", "", g[1]) : g \in {GroupX, GroupY}}

\* no fact of a scenario says what another one already says or excludes
Consistent(F) ==
    /\ \A f \in F : f.k = "account" => \A h \in F : ~(h.k = "member" /\ h.u = f.u)
    /\ \A f \in F : f.k = "notfound" => \A h \in F : ~(h.k = "dir" /\ h.g = f.g)

\* the subsets of U of at most k elements
RECURSIVE SubsetsUpTo(_, _)
SubsetsUpTo(U, k) ==
    IF k = 0 THEN {{}}
    ELSE LET P == SubsetsUpTo(U, k - 1)
         IN  P \cup {S \cup {e} : S \in P, e \in U}

Scenarios(listing) == {F \in SubsetsUpTo(FactsOf(listing), MaxFacts) : Consistent(F)}

ConfigOf(F, deleteorphans, removeabsent, alldirusergroup) ==
    [dryrun |-> Flag("dryrun") \in F,
     preserve_accountids |-> Flag("preserve_accountids") \in F,
     deleteorphans |-> deleteorphans,
     removeabsent |-> removeabsent,
     alldirusergroup |-> alldirusergroup,
     ldap_groups |-> <<SpecX, SpecY>>,
     ldap_media |-> IF Flag("ldap_media") \in F THEN MailAttr ELSE None,
     media_opt |-> IF Flag("onlycreate") \in F THEN << <<OnlyCreateKey, TrueValue>> >> ELSE <<>>,
     media_name |-> MediaName,
     user_opt |-> UserOpt,
     api_version |-> IF Flag("old_api") \in F THEN Version32 ELSE Version34]

\* the user groups of a listing, numbered in listing order
GroupsOf(listing) == [i \in DOMAIN listing |-> [name |-> listing[i], usrgrpid |-> i]]

\* the accounts of a set of names, numbered in the order of TargetNames
UsersOf(names) ==
    LET present == SelectSeq(TargetNames, LAMBDA n : n \in names)
    IN  {[userid |-> i, alias |-> present[i]] : i \in DOMAIN present}

ServerOf(F, listing) ==
    LET names == {<<f.u>> : f \in {h \in F : h.k \in {"member", "account"}}}
        users == UsersOf(names)
        uid(n) == (CHOOSE u \in users : u.alias = n).userid
        gid(g) == CHOOSE i \in DOMAIN listing : listing[i] = g
    IN  [users |-> users,
         lastid |-> Cardinality(names),
         groups |-> GroupsOf(listing),
         members |-> {<<gid(<<f.g>>), uid(<<f.u>>)>> : f \in {h \in F : h.k = "member"}},
         medias |-> {},
         mediatypes |-> {[mediatypeid |-> 1, name |-> MediaName]}]

\* in the directory the first user has a media address, the second has none
DirectoryOf(F) ==
    [groups |-> [g \in {GroupX, GroupY} |->
                    [found |-> Fact("notfound", "", g[1]) \notin F,
                     members |-> {n \in DirUsers : Fact("dir", n[1], g[1]) \in F}]],
     media |-> {UserUpperA}]

Init ==
    /\ \E listing \in GroupLists :
          \E F \in Scenarios(listing), del \in BOOLEAN, rem \in BOOLEAN, all \in {None, GroupAll} :
             /\ config = ConfigOf(F, del, rem, all)
             /\ zbx = ServerOf(F, listing)
             /\ ldap = DirectoryOf(F)
             /\ pass0 = ServerOf(F, listing)
             /\ first = [calls |-> <<>>, log |-> <<>>, dryrun |-> FALSE, zbx |-> ServerOf(F, listing)]
    /\ run = 1
    /\ pc = "create_missing_groups"
    /\ group_index = 0
    /\ zabbix_alldirusergroup_id = NoId
    /\ zabbix_alldirusergroup_users = {}
    /\ zabbix_all_users = {}
    /\ ldap_users = <<>>
    /\ zabbix_group_id = NoId
    /\ zabbix_group_users = {}
    /\ missing_users = {}
    /\ absent_users = {}
    /\ todo = {}
    /\ calls = <<>>
    /\ log = <<>>
    /\ severity = None
    /\ converted_severity = None
    /\ group_spec = None
    /\ group_spec_result = None
    /\ lookup = None
    /\ lookup_result = None

Next ==
    \/ CreateMissingGroups
    \/ SyncUsersBegin
    \/ GroupBegin
    \/ AddMissingUser
    \/ AllUsersBegin
    \/ AddToAllUsers
    \/ ExtraBegin
    \/ HandleExtraUser
    \/ MediaBegin
    \/ UpdateUserMedia
    \/ GroupDone
    \/ Disconnect
    \/ Rerun

Spec == Init /\ [][Next]_vars

----------------------------------------------------------------------------
(* The notions the properties below are stated in.                         *)

\* the identity a user name stands for under the case-folding policy
Fold(n) == IF config.preserve_accountids THEN n ELSE Lower(n)

\* the id of the server's group of a name, NoId if there is none
GroupIdOf(z, name) ==
    LET ids == GroupIdsNamed(z, name)
    IN  IF ids = <<>> THEN NoId ELSE ids[Len(ids)]

\* the identities that are members of the server's group of an id
IdentitiesIn(z, groupid) == {Fold(n) : n \in GetGroupMembers(z, groupid)}

\* an account of the identity is a member of the group of that name
IsMember(z, identity, name) == identity \in IdentitiesIn(z, GroupIdOf(z, name))

\* the identities the directory resolves for a configured group
DirectorySet(name) == DOMAIN LdapUsers(config, LdapGetGroupMembers(ldap, name).members)

\* the identity is a member of the configured group of all directory users
UmbrellaMember(z, identity) ==
    /\ config.alldirusergroup # None
    /\ IsMember(z, identity, config.alldirusergroup)

\* the ids of the accounts of an identity
AccountIds(z, identity) == {u.userid : u \in {v \in z.users : Fold(v.alias) = identity}}

\* the groups an account is a member of
MembershipsOf(z, userid) == {m[1] : m \in {n \in z.members : n[2] = userid}}

\* the calls of this run that carry out one of the given actions
CallsOf(ops) == {c \in Range(calls) : c.op \in ops}

\* the calls of this run made for the group being processed
PassCalls == {c \in Range(calls) : c.group = GroupName}

\* the sets of a pass, taken on the server as the pass found it
Missing0 == DOMAIN ldap_users \ IdentitiesIn(pass0, zabbix_group_id)

Both0 == DOMAIN ldap_users \cap IdentitiesIn(pass0, zabbix_group_id)

Absent0 == IdentitiesIn(pass0, zabbix_group_id) \ DOMAIN ldap_users

\* the configured groups whose directory group exists and has members
Populated == {g \in Range(ConfiguredNames(config)) : DirectorySet(g) # {}}

----------------------------------------------------------------------------
(* C1: a dry run issues no mutating call.                                  *)

\* C1: while the run is a dry run, create_missing_groups and sync_users have
\* issued no mutating call of any kind, and the server is as the run found it.
DryRunIssuesNoCall == config.dryrun => (calls = <<>> /\ zbx = first.zbx)

\* a dry run that went through additions to the group of all directory users
\* and through a removal, and ended
DryRunWentThroughAddsAndRemovals ==
    /\ config.dryrun
    /\ pc = "done"
    /\ \E i \in DOMAIN log : log[i].op = "update_user" /\ log[i].group = config.alldirusergroup
    /\ \E i \in DOMAIN log : log[i].op \in {"delete_user", "remove_user"}

----------------------------------------------------------------------------
(* C2: the members of a configured group after a run.                      *)

\* C2: after a completed non-dry run, every identity of directorySet(G) of
\* every configured group G with directory members is a member of target group G.
DirectoryMembersAreMembers ==
    (pc = "done" /\ ~config.dryrun) =>
        \A g \in Populated : \A u \in DirectorySet(g) : IsMember(zbx, u, g)

\* C2, amended: after a completed non-dry run, every identity of
\* directorySet(G) is a member of target group G unless the run deleted its
\* account, with success, in the pass of another configured group.
DirectoryMembersAreMembersUnlessDeleted ==
    (pc = "done" /\ ~config.dryrun) =>
        \A g \in Populated : \A u \in DirectorySet(g) :
           \/ IsMember(zbx, u, g)
           \/ \E c \in Range(calls) :
                 c.api = "user.delete" /\ c.ok /\ Fold(c.user) = u /\ c.group # g

\* a completed run that added an identity to one configured group and handled
\* it as an absent member of another one
AddedHereRemovedThere ==
    /\ pc = "done"
    /\ ~config.dryrun
    /\ \E c \in Range(calls), d \in Range(calls) :
          /\ c.op = "update_user" /\ c.ok /\ c.group = GroupX
          /\ d.op = "remove_user" /\ d.ok /\ d.group = GroupY
          /\ Fold(d.user) = Fold(c.user)
          /\ Fold(c.user) \in DirectorySet(GroupX)
          /\ IsMember(zbx, Fold(c.user), GroupX)

----------------------------------------------------------------------------
(* C3: a second run finds nothing to do.                                   *)

\* C3: when a non-dry run whose calls all succeeded has completed and the job
\* is run again on the same configuration and directory, the second run issues
\* no account-create, add-to-group, remove-from-group or account-delete call.
SecondRunIssuesNothing ==
    (run = 2 /\ ~first.dryrun /\ \A c \in Range(first.calls) : c.ok) =>
        CallsOf({"create_user", "update_user", "remove_user", "delete_user"}) = {}

----------------------------------------------------------------------------
(* C4: the group of all directory users gates the removals.                *)

\* C4: in the pass of a group, no account-delete and no remove-from-group call
\* is made for an identity that was not a member of the configured group of
\* all directory users when the pass began; none at all when no such group
\* is configured.
RemovalsAreGated ==
    pc \in {"extra", "media"} =>
        \A c \in PassCalls :
           c.op \in {"delete_user", "remove_user"} => UmbrellaMember(pass0, Fold(c.user))

----------------------------------------------------------------------------
(* C5: the actions of a pass under delete-orphans.                         *)

\* C5: with delete-orphans in a non-dry run, when the removals of a pass are
\* over, each missing identity has got a create-account or add-to-group call,
\* each identity both in the directory set and in the target group has got no
\* call, and each absent identity that is a member of the group of all
\* directory users has got an account-delete call for its own account and no
\* remove-from-group call.
DeleteOrphansActions ==
    (pc = "media" /\ config.deleteorphans /\ ~config.dryrun) =>
        /\ \A u \in Missing0 :
              \E c \in PassCalls : c.op \in {"create_user", "update_user"} /\ Fold(c.user) = u
        /\ \A u \in Both0 : \A c \in PassCalls : Fold(c.user) # u
        /\ \A u \in Absent0 :
              UmbrellaMember(pass0, u) =>
                 /\ \E c \in PassCalls :
                       /\ c.api = "user.delete"
                       /\ Fold(c.user) = u
                       /\ c.userids \subseteq AccountIds(pass0, u)
                 /\ \A c \in PassCalls : ~(c.op = "remove_user" /\ Fold(c.user) = u)

----------------------------------------------------------------------------
(* C6: the effect of remove-absent.                                        *)

\* C6: with remove-absent and without delete-orphans in a non-dry run, when
\* the removals of a pass are over, every absent identity that is a member of
\* the group of all directory users is no longer a member of the processed
\* group, its account exists, and its memberships in the other groups are as
\* before; for every API version.  It is stated for the members the engine
\* gated on the configured group and whose account id it resolved, which
\* leaves remove_user alone to account for the outcome.
RemoveAbsentRemoves ==
    (pc = "media" /\ config.removeabsent /\ ~config.deleteorphans /\ ~config.dryrun) =>
        \A n \in GetGroupMembers(pass0, zabbix_group_id) :
           (/\ Fold(n) \in Absent0
            /\ UmbrellaMember(pass0, Fold(n))
            /\ zabbix_alldirusergroup_id = GroupIdOf(pass0, config.alldirusergroup)
            /\ n \in zabbix_alldirusergroup_users
            /\ GetUserId(pass0, n) # NoId) =>
               /\ ~IsMember(zbx, Fold(n), GroupName)
               /\ \A id \in AccountIds(pass0, Fold(n)) :
                     /\ id \in UserIds(zbx)
                     /\ MembershipsOf(zbx, id) \ {zabbix_group_id}
                           = MembershipsOf(pass0, id) \ {zabbix_group_id}

----------------------------------------------------------------------------
(* C7: one case-folding policy on both sides of every comparison.          *)

\* C7: when preserve-account-ids is false, every user name the engine
\* compares (the directory set, the members of the target group, the members
\* of the group of all directory users, all target accounts) is lowercase;
\* when it is true, names keep their case also in the account-id lookup, so
\* no call for a user is made with an unresolved account id.
CaseFolding ==
    /\ ~config.preserve_accountids =>
          \A n \in DOMAIN ldap_users \cup zabbix_group_users
                   \cup zabbix_alldirusergroup_users \cup zabbix_all_users : n = Lower(n)
    /\ config.preserve_accountids =>
          \A c \in CallsOf({"update_user", "remove_user", "delete_user", "update_media"}) :
             NoId \notin c.userids

----------------------------------------------------------------------------
(* C8: what a dry run logs is what a real run does.                        *)

\* C8: for the same configuration, directory and server, the set of actions a
\* completed dry run logs equals the set of actions of the mutating calls the
\* non-dry run issues.
DryRunLogsWhatRealRunDoes ==
    (run = 2 /\ first.dryrun /\ pc = "done") =>
        Range(first.log) = {IntentOf(c) : c \in Range(calls)}

----------------------------------------------------------------------------
(* C9: a group the directory does not find is skipped.                     *)

\* C9: the run does not fail at a configured group for which the directory
\* reports NotFound: the group is skipped and the run goes on.
NotFoundGroupIsSkipped ==
    ~(/\ pc = "aborted"
      /\ group_index \in DOMAIN config.ldap_groups
      /\ ~LdapGetGroupMembers(ldap, GroupName).found)

----------------------------------------------------------------------------
(* C10: a failed deletion is the account's failure only.                   *)

\* C10: when the account-delete calls of a pass failed for the absent
\* identities of the group, the run is not aborted in that pass: the media
\* step, the later groups and the disconnect are still executed.
FailedDeleteDoesNotAbort ==
    ~(/\ pc = "aborted"
      /\ group_index \in DOMAIN config.ldap_groups
      /\ absent_users # {}
      /\ \A n \in absent_users :
            \E c \in PassCalls : c.api = "user.delete" /\ ~c.ok /\ c.user = n)

----------------------------------------------------------------------------
(* C11: the order of the calls of a run.                                   *)

\* the place of a group name in the configured list, 0 if it is not in it
PositionOf(name) ==
    IF name \in Range(ConfiguredNames(config))
    THEN CHOOSE i \in DOMAIN config.ldap_groups : ConfiguredNames(config)[i] = name
    ELSE 0

\* adds come first, removals second, media updates third
PhaseOf(c) ==
    IF c.op \in {"create_user", "update_user"} THEN 1
    ELSE IF c.op \in {"delete_user", "remove_user"} THEN 2
    ELSE IF c.op = "update_media" THEN 3
    ELSE 0

\* a call made for a configured group, as opposed to an addition to the
\* group of all directory users or a group creation
ForConfigured(c) == PositionOf(c.group) # 0 /\ PhaseOf(c) # 0

\* C11: the calls of a run come group by group in the order of the
\* configured list; within a group the account-create and add-to-group calls
\* (those to the group of all directory users included) come before the
\* delete and remove calls, which come before the media calls; no call for a
\* group comes after a call for a later group.
CallsInOrder ==
    /\ \A i \in DOMAIN calls, j \in DOMAIN calls :
          (i < j /\ ForConfigured(calls[i]) /\ ForConfigured(calls[j])) =>
             \/ PositionOf(calls[i].group) < PositionOf(calls[j].group)
             \/ /\ PositionOf(calls[i].group) = PositionOf(calls[j].group)
                /\ PhaseOf(calls[i]) <= PhaseOf(calls[j])
    /\ \A i \in DOMAIN calls, j \in DOMAIN calls, k \in DOMAIN calls :
          (/\ i < j /\ j < k
           /\ ForConfigured(calls[i]) /\ ForConfigured(calls[k])
           /\ calls[i].group = calls[k].group
           /\ calls[j].op = "update_user" /\ calls[j].group = config.alldirusergroup) =>
              PhaseOf(calls[i]) = 1

\* a completed run that created an account in the first group, added it to
\* the group of all directory users and deleted an account in the second group
AddedThenDeletedInNextGroup ==
    /\ pc = "done"
    /\ \E i \in DOMAIN calls, j \in DOMAIN calls, k \in DOMAIN calls :
          /\ i < j /\ j < k
          /\ calls[i].op = "create_user" /\ calls[i].group = GroupX
          /\ calls[j].op = "update_user" /\ calls[j].group = config.alldirusergroup
          /\ calls[k].op = "delete_user" /\ calls[k].group = GroupY /\ calls[k].ok

----------------------------------------------------------------------------
(* C12: the group of all directory users is the configured one.            *)

\* C12: when a group of all directory users is configured, the id the engine
\* reads its members from and adds to is the id of the target group of that
\* name, and after a completed non-dry run every identity the directory
\* resolves for a configured group is a member of that group.
UmbrellaIsTheConfiguredGroup ==
    config.alldirusergroup # None =>
        /\ pc \in {"group", "add_missing", "add_all", "extra", "media", "done"} =>
              zabbix_alldirusergroup_id = GroupIdOf(zbx, config.alldirusergroup)
        /\ (pc = "done" /\ ~config.dryrun) =>
              \A g \in Populated : \A u \in DirectorySet(g) :
                 IsMember(zbx, u, config.alldirusergroup)

----------------------------------------------------------------------------
(* C13: a group without directory members and without removal policy.      *)

\* the engine is at the head of the pass of a group that the directory finds
\* and resolves to no member, and no removal policy is configured
AtEmptyGroupWithoutPolicy ==
    /\ pc = "group"
    /\ group_index \in DOMAIN config.ldap_groups
    /\ LdapGetGroupMembers(ldap, GroupName).found
    /\ DirectorySet(GroupName) = {}
    /\ ~config.deleteorphans
    /\ ~config.removeabsent

\* C13: when the directory member set of a group is empty and neither
\* delete-orphans nor remove-absent is enabled, the pass of the group is one
\* step to the next group: the target group is not looked up, its members are
\* not fetched, no call is issued, no media step is entered and the target
\* system is unchanged.
EmptyGroupIsSkipped ==
    [][AtEmptyGroupWithoutPolicy =>
          /\ pc' = "group"
          /\ group_index' = group_index + 1
          /\ zbx' = zbx
          /\ calls' = calls
          /\ UNCHANGED <<zabbix_group_id, zabbix_group_users, missing_users,
                         absent_users, todo>>]_vars

\* the first group was skipped although its target group has members: no
\* target group was looked up and no call was issued
SkippedGroupWithMembers ==
    /\ run = 1
    /\ pc = "group"
    /\ group_index = 2
    /\ ~config.deleteorphans
    /\ ~config.removeabsent
    /\ LdapGetGroupMembers(ldap, GroupX).found
    /\ DirectorySet(GroupX) = {}
    /\ GetGroupMembers(zbx, GroupIdOf(zbx, GroupX)) # {}
    /\ zabbix_group_id = NoId
    /\ CallsOf({"create_user", "update_user", "delete_user", "remove_user", "update_media"}) = {}

----------------------------------------------------------------------------
(* C14: a dry run takes the branches of the real run.                      *)

\* C14: a dry run ends in a fatal failure only where the non-dry run on the
\* same inputs does.  A non-dry run has created every configured group before
\* sync_users starts and so never fails for want of the target group of a
\* configured group; hence a dry run does not fail at a configured group that
\* is not yet present in the target system.
DryRunFailsWhereRealRunFails ==
    ~(/\ config.dryrun
      /\ pc = "aborted"
      /\ group_index \in DOMAIN config.ldap_groups
      /\ LdapGetGroupMembers(ldap, GroupName).found
      /\ GroupIdsNamed(zbx, GroupName) = <<>>)

----------------------------------------------------------------------------
(* convert_severity called on its own.                                     *)

\* most level names of one severity string, most digits of a numeric one
MaxSeverities == 2
MaxDigits == 2

\* a level name as it is written, or with a blank before it, after it or both
Padded(n) == {l \o n \o r : l \in {<<>>, <<" ">>}, r \in {<<>>, <<" ">>}}

\* the strings made of one to k elements of E with commas between them
RECURSIVE JoinedLists(_, _)
JoinedLists(E, k) ==
    IF k = 1 THEN E
    ELSE LET P == JoinedLists(E, k - 1)
         IN  P \cup {p \o <<",">> \o e : p \in P, e \in E}

SeverityElements == UNION {Padded(n) : n \in Range(SevEntries)}

\* the lists of level names, in any order, with repeats and blanks
SeverityNameLists == JoinedLists(SeverityElements, MaxSeverities)

\* the strings of digits
RECURSIVE DigitStringsUpTo(_)
DigitStringsUpTo(k) ==
    IF k = 0 THEN {}
    ELSE DigitStringsUpTo(k - 1)
         \cup {<<d>> : d \in {"0", "1", "6"}}
         \cup {s \o <<d>> : s \in DigitStringsUpTo(k - 1), d \in {"0", "1", "6"}}

DigitStrings == DigitStringsUpTo(MaxDigits)

\* elements that are not level names: a level name in lower case, an unknown
\* word, a word that begins with a digit, nothing at all
NoLevelElements ==
    UNION {Padded(n) : n \in {<<"h", "i", "g", "h">>, <<"L", "o", "w">>, <<"1", "x">>, <<>>}}

\* the lists with an element that is not a level name
SeverityBadLists ==
    JoinedLists(SeverityElements \cup NoLevelElements, MaxSeverities)
        \ (SeverityNameLists \cup DigitStrings)

\* no run of the job is in progress
NoRun ==
    /\ config = ConfigOf({}, FALSE, FALSE, None)
    /\ zbx = ServerOf({}, <<GroupX, GroupY, GroupAll>>)
    /\ ldap = DirectoryOf({})
    /\ pass0 = ServerOf({}, <<GroupX, GroupY, GroupAll>>)
    /\ first = [calls |-> <<>>, log |-> <<>>, dryrun |-> FALSE,
                zbx |-> ServerOf({}, <<GroupX, GroupY, GroupAll>>)]
    /\ run = 1
    /\ group_index = 0
    /\ zabbix_alldirusergroup_id = NoId
    /\ zabbix_alldirusergroup_users = {}
    /\ zabbix_all_users = {}
    /\ ldap_users = <<>>
    /\ zabbix_group_id = NoId
    /\ zabbix_group_users = {}
    /\ missing_users = {}
    /\ absent_users = {}
    /\ todo = {}
    /\ calls = <<>>
    /\ log = <<>>

run_state == <<config, zbx, ldap, run, group_index, zabbix_alldirusergroup_id,
               zabbix_alldirusergroup_users, locals, todo, calls, log, pass0, first>>

SeverityInit ==
    /\ NoRun
    /\ pc = "convert_severity"
    /\ severity \in SeverityNameLists \cup DigitStrings \cup SeverityBadLists
    /\ converted_severity = None
    /\ group_spec = None
    /\ group_spec_result = None
    /\ lookup = None
    /\ lookup_result = None

\* self.convert_severity(severity)
ConvertSeverityCall ==
    /\ pc = "convert_severity"
    /\ LET r == ConvertSeverity(severity)
       IN  /\ converted_severity' = r.value
           /\ pc' = IF r.ok THEN "returned" ELSE "raised"
    /\ UNCHANGED <<run_state, severity, group_spec, group_spec_result, lookup, lookup_result>>

SeverityNext == ConvertSeverityCall

SeveritySpec == SeverityInit /\ [][SeverityNext]_vars

----------------------------------------------------------------------------
(* C15: what convert_severity returns.                                     *)

\* s occurs in t
Occurs(s, t) == \E i \in 1 .. Len(t) - Len(s) + 1 : SubSeq(t, i, i + Len(s) - 1) = s

\* 32, 16, 8, 4, 2, 1 for the level names present in a list of level names
LevelSum(t) ==
    (IF Occurs(Disaster, t) THEN 32 ELSE 0) + (IF Occurs(High, t) THEN 16 ELSE 0)
    + (IF Occurs(Average, t) THEN 8 ELSE 0) + (IF Occurs(Warning, t) THEN 4 ELSE 0)
    + (IF Occurs(Information, t) THEN 2 ELSE 0) + (IF Occurs(NotClassified, t) THEN 1 ELSE 0)

\* the decimal string of a number below 100
Decimal(n) ==
    LET digits == <<"0", "1", "2", "3", "4", "5", "6", "7", "8", "9">>
    IN  IF n < 10 THEN <<digits[n + 1]>>
        ELSE <<digits[(n \div 10) + 1], digits[(n % 10) + 1]>>

\* C15: for a non-empty comma-separated list of level names, in any order,
\* with repeats and surrounding blanks, convert_severity returns the decimal
\* string of the sum of 32, 16, 8, 4, 2, 1 for the distinct levels present;
\* for an all-digits string it returns the string unchanged.
SeverityEncodes ==
    pc \in {"returned", "raised"} =>
        /\ severity \in SeverityNameLists =>
              pc = "returned" /\ converted_severity = Decimal(LevelSum(severity))
        /\ severity \in DigitStrings =>
              pc = "returned" /\ converted_severity = severity

\* " High,Disaster " was converted to "48"
HighAndDisasterEncoded ==
    /\ pc = "returned"
    /\ severity = <<" ">> \o High \o <<",">> \o Disaster \o <<" ">>
    /\ converted_severity = <<"4", "8">>

----------------------------------------------------------------------------
(* C16: what convert_severity refuses.                                     *)

\* C16: for a string that is not all digits and has a comma-separated element
\* that is not a level name (a name in the wrong case, an element that begins
\* with a digit), convert_severity raises and returns no value.
SeverityRefuses ==
    (pc \in {"returned", "raised"} /\ severity \in SeverityBadLists) => pc = "raised"

----------------------------------------------------------------------------
(* _get_group_spec called on its own.                                      *)

\* longest group specification
MaxSpecLen == 4

\* the strings of at most k characters: a letter, a colon, a digit, a blank,
\* a line feed
RECURSIVE SpecStrings(_)
SpecStrings(k) ==
    IF k = 0 THEN {<<>>}
    ELSE SpecStrings(k - 1)
         \cup {s \o <<c>> : s \in SpecStrings(k - 1), c \in {"x", ":", "3", " ", "\n"}}

GroupSpecInit ==
    /\ NoRun
    /\ pc = "get_group_spec"
    /\ group_spec \in SpecStrings(MaxSpecLen)
    /\ group_spec_result = None
    /\ lookup = None
    /\ lookup_result = None
    /\ severity = None
    /\ converted_severity = None

\* self._get_group_spec(group_spec)
GetGroupSpecCall ==
    /\ pc = "get_group_spec"
    /\ LET r == GetGroupSpec(group_spec)
       IN  group_spec_result' = <<r.name, r.role_id>>
    /\ pc' = "returned"
    /\ UNCHANGED <<run_state, group_spec, severity, converted_severity, lookup, lookup_result>>

GroupSpecNext == GetGroupSpecCall

GroupSpecSpec == GroupSpecInit /\ [][GroupSpecNext]_vars

----------------------------------------------------------------------------
(* C17: what _get_group_spec returns.                                      *)

\* t ends in ':' followed by one or more digits, the colon at position k,
\* with a non-empty part before it
EndsInRole(t, k) ==
    /\ k \in 2 .. Len(t) - 1
    /\ t[k] = ":"
    /\ \A i \in k + 1 .. Len(t) : IsDigit(t[i])

\* q is p without its leading and trailing whitespace
IsTrimOf(q, p) ==
    \E i \in 1 .. Len(p) + 1, j \in 0 .. Len(p) :
       /\ q = SubSeq(p, i, j)
       /\ \A n \in 1 .. i - 1 : IsSpace(p[n])
       /\ \A n \in j + 1 .. Len(p) : IsSpace(p[n])
       /\ q = <<>> \/ (~IsSpace(q[1]) /\ ~IsSpace(q[Len(q)]))

\* s without the line feed it may end with
WithoutFinalLineFeed(s) ==
    IF s # <<>> /\ s[Len(s)] = "\n" THEN SubSeq(s, 1, Len(s) - 1) ELSE s

\* C17: _get_group_spec never fails; if s ends in ':' followed by one or more
\* digits and has a non-empty part before that colon, it returns that part as
\* the name and the digits as the role id, otherwise s unchanged and no role id.
GroupSpecParses ==
    (pc = "returned" /\ group_spec # None) =>
        IF \E k \in DOMAIN group_spec : EndsInRole(group_spec, k)
        THEN \E k \in DOMAIN group_spec :
                /\ EndsInRole(group_spec, k)
                /\ group_spec_result = <<SubSeq(group_spec, 1, k - 1),
                                         SubSeq(group_spec, k + 1, Len(group_spec))>>
        ELSE group_spec_result = <<group_spec, None>>

\* C17, amended: _get_group_spec never fails; if s, leaving aside one line
\* feed at its very end, ends in ':' followed by one or more digits and the
\* part before that colon is non-empty and has no line feed, it returns that
\* part without its leading and trailing whitespace as the name and the
\* digits as the role id; otherwise s unchanged and no role id.
GroupSpecParsesTrimmed ==
    (pc = "returned" /\ group_spec # None) =>
        LET t == WithoutFinalLineFeed(group_spec)
            fits(k) == EndsInRole(t, k) /\ \A i \in 1 .. k - 1 : t[i] # "\n"
        IN  IF \E k \in DOMAIN t : fits(k)
            THEN \E k \in DOMAIN t :
                    /\ fits(k)
                    /\ IsTrimOf(group_spec_result[1], SubSeq(t, 1, k - 1))
                    /\ group_spec_result[2] = SubSeq(t, k + 1, Len(t))
            ELSE group_spec_result = <<group_spec, None>>

\* " x:3" was parsed into the name "x" and the role id "3"
PaddedNameParsed ==
    /\ pc = "returned"
    /\ group_spec = <<" ", "x", ":", "3">>
    /\ group_spec_result = << <<"x">>, <<"3">> >>

----------------------------------------------------------------------------
(* C18: absent identities in the media step.                               *)

\* C18: when the media step visits an identity that is in absent_users, still
\* a member of the group, it issues no call for it and goes on with the
\* remaining identities.
AbsentMemberIsPassedOver ==
    [][(pc = "media" /\ \E name \in todo \ todo' : name \in absent_users)
          => (pc' = "media" /\ calls' = calls)]_vars

----------------------------------------------------------------------------
(* C19: the membership of the group of all directory users that gates the  *)
(* removals.                                                               *)

\* C19: while the absent users of a group are handled, with the group of all
\* directory users resolved to the configured one, the membership the gate
\* tests an absent user of a lower-case name against is that group's
\* membership at that moment.
RemovalGateIsCurrent ==
    (/\ pc = "extra"
     /\ config.alldirusergroup # None
     /\ zabbix_alldirusergroup_id = GroupIdOf(zbx, config.alldirusergroup)) =>
        \A each_user \in {n \in todo : n = Lower(n)} :
           each_user \in zabbix_alldirusergroup_users
              <=> each_user \in GetGroupMembers(zbx, zabbix_alldirusergroup_id)

----------------------------------------------------------------------------
(* C20: what is issued for a missing user.                                 *)

\* the calls a step added to calls
NewCalls == SubSeq(calls', Len(calls) + 1, Len(calls'))

\* C20: in a run that is no dry run, each round of the loop over the missing
\* users issues exactly one call: a user.create placing the new account in the
\* group when the server has no account of that username at that moment,
\* otherwise a call adding the existing account to the group.
MissingUserCreatedOrAdded ==
    [][(pc = "add_missing" /\ ~config.dryrun /\ todo # {} /\ todo' # todo) =>
          \E each_user \in todo \ todo' :
             /\ Len(NewCalls) = 1
             /\ IF AccountIds(zbx, each_user) = {}
                THEN /\ NewCalls[1].op = "create_user"
                     /\ NewCalls[1].user = each_user
                     /\ NewCalls[1].usrgrpid = zabbix_group_id
                ELSE /\ NewCalls[1].op = "update_user"
                     /\ NewCalls[1].usrgrpid = zabbix_group_id
                     /\ AccountIds(zbx, each_user) \cap NewCalls[1].userids # {}]_vars

----------------------------------------------------------------------------
(* update_user and remove_user called on their own, on a server of any     *)
(* version.                                                                *)

\* api_version() strings: below 3.4, 3.4, above it, above it with two digits
ApiVersions ==
    {Version32, Version34, <<"5", ".", "0">>, <<"1", "0", ".", "0">>}

\* servers with the accounts a and b, each a member of group x or of none
MembershipServers ==
    {ServerOf({Fact(ka, "a", "x"), Fact(kb, "b", "x")}, <<GroupX, GroupY, GroupAll>>) :
        ka \in {"member", "account"}, kb \in {"member", "account"}}

\* the call to come is update_user for a missing user of group x or
\* remove_user for an absent one
MembershipInit ==
    /\ \E v \in ApiVersions, z \in MembershipServers, dry \in BOOLEAN :
          /\ config = [ConfigOf({}, FALSE, TRUE, None) EXCEPT !.api_version = v, !.dryrun = dry]
          /\ zbx = z
          /\ pass0 = z
          /\ first = [calls |-> <<>>, log |-> <<>>, dryrun |-> FALSE, zbx |-> z]
    /\ \E user \in {UserA, UserB} :
          \/ pc = "update_user" /\ missing_users = {user} /\ absent_users = {}
          \/ pc = "remove_user" /\ missing_users = {} /\ absent_users = {user}
    /\ ldap = DirectoryOf({})
    /\ run = 1
    /\ group_index = 1
    /\ zabbix_alldirusergroup_id = NoId
    /\ zabbix_alldirusergroup_users = {}
    /\ zabbix_all_users = {}
    /\ ldap_users = <<>>
    /\ zabbix_group_id = 1
    /\ zabbix_group_users = {}
    /\ todo = {}
    /\ calls = <<>>
    /\ log = <<>>
    /\ severity = None
    /\ converted_severity = None
    /\ group_spec = None
    /\ group_spec_result = None
    /\ lookup = None
    /\ lookup_result = None

\* self.update_user(each_user, zabbix_group_id)
UpdateUserCall ==
    /\ pc = "update_user"
    /\ \E each_user \in missing_users :
          LET r == UpdateUser(zbx, config, "update_user", each_user, GroupX, zabbix_group_id)
          IN  /\ zbx' = r.z
              /\ calls' = calls \o r.calls
              /\ pc' = IF r.ok THEN "returned" ELSE "raised"
    /\ UNCHANGED <<config, ldap, run, group_index, zabbix_alldirusergroup_id,
                   zabbix_alldirusergroup_users, locals, todo, log, pass0, first>>
    /\ UNCHANGED called

\* self.remove_user(each_user, zabbix_group_id)
RemoveUserCall ==
    /\ pc = "remove_user"
    /\ \E each_user \in absent_users :
          LET r == RemoveUser(zbx, config, each_user, GroupX, zabbix_group_id)
          IN  /\ zbx' = r.z
              /\ calls' = calls \o r.calls
              /\ pc' = IF r.ok THEN "returned" ELSE "raised"
    /\ UNCHANGED <<config, ldap, run, group_index, zabbix_alldirusergroup_id,
                   zabbix_alldirusergroup_users, locals, todo, log, pass0, first>>
    /\ UNCHANGED called

MembershipNext == UpdateUserCall \/ RemoveUserCall

MembershipSpec == MembershipInit /\ [][MembershipNext]_vars

----------------------------------------------------------------------------
(* C21: the primitive that adds to a group, and the membership after an    *)
(* addition and after a removal.                                           *)

\* the number a string of digits writes
RECURSIVE NumberOf(_)
NumberOf(s) ==
    IF s = <<>> THEN 0 ELSE 10 * NumberOf(SubSeq(s, 1, Len(s) - 1)) + (Ord(s[Len(s)]) - 48)

\* version order on "major.minor" strings
VersionAtLeast(v, w) ==
    LET a == Split(v, ".")
        b == Split(w, ".")
    IN  \/ NumberOf(a[1]) > NumberOf(b[1])
        \/ NumberOf(a[1]) = NumberOf(b[1]) /\ NumberOf(a[2]) >= NumberOf(b[2])

\* C21: in a real run, update_user has issued usergroup.update on a server of
\* version 3.4 or later in version order and usergroup.massadd on an earlier
\* one, and the group has its former members and the added account;
\* remove_user has left the group its former members but the removed account.
MembershipAddsAndRemovesOne ==
    (pc = "returned" /\ ~config.dryrun) =>
        /\ \A user \in missing_users :
              /\ Len(calls) = 1
              /\ calls[1].api = IF VersionAtLeast(config.api_version, Version34)
                                THEN "usergroup.update" ELSE "usergroup.massadd"
              /\ GroupUserIds(zbx, zabbix_group_id)
                    = GroupUserIds(pass0, zabbix_group_id) \cup AccountIds(pass0, user)
        /\ \A user \in absent_users :
              GroupUserIds(zbx, zabbix_group_id)
                 = GroupUserIds(pass0, zabbix_group_id) \ AccountIds(pass0, user)

----------------------------------------------------------------------------
(* C22: whom the media step considers and for whom it issues an update.    *)

\* the directory entry of an identity of a configured group
EntryOf(group, identity) ==
    LdapUsers(config, LdapGetGroupMembers(ldap, group).members)[identity]

\* C22: the media step of a group goes over the users missing when the pass
\* began if onlycreate is true, and otherwise over the members the group has
\* after the additions and removals of the pass; a media update is issued only
\* for an identity of the group's directory set that is not among the absent
\* users and whose directory entry has the media attribute.
MediaScope ==
    /\ pc = "media" =>
          zabbix_group_users
             = IF OnlyCreate(config.media_opt)
               THEN DOMAIN ldap_users \ GetGroupMembers(pass0, zabbix_group_id)
               ELSE GetGroupMembers(zbx, zabbix_group_id)
    /\ \A c \in CallsOf({"update_media"}) :
          /\ c.user \in DirectorySet(c.group)
          /\ LdapGetUserMedia(ldap, EntryOf(c.group, c.user), config.ldap_media) # None
          /\ (pc = "media" /\ c.group = GroupName) => c.user \notin absent_users

\* the media of a user created in this pass was updated: the members were
\* read again
CreatedUserGotMedia ==
    /\ pc = "media"
    /\ ~OnlyCreate(config.media_opt)
    /\ \E c \in CallsOf({"update_media"}) :
          /\ c.group = GroupName
          /\ c.user \notin GetGroupMembers(pass0, zabbix_group_id)

----------------------------------------------------------------------------
(* Runs of the job with the media attribute configured, on servers where   *)
(* the media name matches no media type, one, or two.                      *)

\* largest number of facts of a scenario, the media attribute aside
MaxMediaFacts == 2

\* what mediatype.get can list
MediaTypeSets ==
    {{},
     {[mediatypeid |-> 1, name |-> MediaName]},
     {[mediatypeid |-> 1, name |-> MediaName], [mediatypeid |-> 2, name |-> MediaName]}}

MediaScenarios(listing) ==
    {F \cup {Flag("ldap_media")} :
        F \in {G \in SubsetsUpTo(FactsOf(listing) \ {Flag("ldap_media")}, MaxMediaFacts) :
                  Consistent(G)}}

MediaInit ==
    /\ \E listing \in GroupLists :
          \E F \in MediaScenarios(listing), mt \in MediaTypeSets, all \in {None, GroupAll} :
             LET z == [ServerOf(F, listing) EXCEPT !.mediatypes = mt]
             IN  /\ config = ConfigOf(F, FALSE, FALSE, all)
                 /\ zbx = z
                 /\ ldap = DirectoryOf(F)
                 /\ pass0 = z
                 /\ first = [calls |-> <<>>, log |-> <<>>, dryrun |-> FALSE, zbx |-> z]
    /\ run = 1
    /\ pc = "create_missing_groups"
    /\ group_index = 0
    /\ zabbix_alldirusergroup_id = NoId
    /\ zabbix_alldirusergroup_users = {}
    /\ zabbix_all_users = {}
    /\ ldap_users = <<>>
    /\ zabbix_group_id = NoId
    /\ zabbix_group_users = {}
    /\ missing_users = {}
    /\ absent_users = {}
    /\ todo = {}
    /\ calls = <<>>
    /\ log = <<>>
    /\ severity = None
    /\ converted_severity = None
    /\ group_spec = None
    /\ group_spec_result = None
    /\ lookup = None
    /\ lookup_result = None

MediaSpec == MediaInit /\ [][Next]_vars

----------------------------------------------------------------------------
(* C23: a media name that matches no media type or several.                *)

\* the media step is about to call update_media for this member
UpdateMediaDue(name) ==
    /\ ~config.dryrun
    /\ config.ldap_media # None
    /\ Fold(name) \in DOMAIN ldap_users
    /\ Fold(name) \notin absent_users
    /\ LdapGetUserMedia(ldap, ldap_users[Fold(name)], config.ldap_media) # None

\* C23: when the media step calls update_media for a user and the media name
\* matches no media type or more than one, no media is written or deleted and
\* the step goes on with the other users of the group.
MediaTypeFailureIsPerItem ==
    [][(/\ pc = "media"
        /\ \E name \in todo \ todo' : UpdateMediaDue(name)
        /\ Cardinality(MediatypeGet(zbx, Strip(config.media_name))) # 1)
          => (pc' = "media" /\ zbx' = zbx)]_vars

----------------------------------------------------------------------------
(* LDAPConn.get_group_members called on its own.  A filter is the set of   *)
(* the parts it is made of; the directory has two accounts, the second     *)
(* one disabled.                                                           *)

\* the parts of a search filter
UserFilter == "user_filter"
MemberOfFilter == "memberof_filter"
DisabledFilter == "disabled_filter"
AnyObjectFilter == "(objectClass=*)"

\* the distinguished names of the directory's accounts and of the group
DnOne == <<"cn=A">>
DnTwo == <<"cn=b">>
DnGroup == <<"cn=x">>

\* the uid attribute of an account
UidOf(dn) == IF dn = DnOne THEN UserUpperA ELSE UserB

\* the account is disabled
Disabled(dn) == dn = DnTwo

\* an entry search_s returns for the group filter: a referral (no dn), or the
\* group with the values of its member attribute; the attribute is left out
\* of the entry when it has no value
Referral == [dn |-> None, members |-> {}]

GroupEntry(members) == [dn |-> DnGroup, members |-> members]

GroupSearches ==
    {<<>>, <<Referral>>}
    \cup {<<GroupEntry(m)>> : m \in SUBSET {DnOne, DnTwo}}
    \cup {<<Referral, GroupEntry(m)>> : m \in {{}, {DnOne}}}
    \cup {<<GroupEntry(m), Referral>> : m \in {{}, {DnOne}}}

\* the LDAPConn objects and directories get_group_members is called on;
\* nested: the accounts whose member-of closure holds the group.  Referrals
\* come with the answers of an Active Directory.
Lookups ==
    {lk \in [active_directory : BOOLEAN, recursive : BOOLEAN, skipdisabled : BOOLEAN,
             ldap_accountids : BOOLEAN, openldap_type : {"groupofnames", "posixgroup"},
             result : GroupSearches, nested : SUBSET {DnOne, DnTwo}] :
        lk.active_directory \/ \A i \in DOMAIN lk.result : lk.result[i].dn # None}

\* LDAPConn.remove_ad_referrals
RemoveAdReferrals(result) == SelectSeq(result, LAMBDA e : e.dn # None)

\* search_s for accounts: those among the candidates that pass the filter
SearchAccounts(candidates, filter) ==
    {dn \in candidates : DisabledFilter \in filter => ~Disabled(dn)}

\* what get_group_members gives back: None, a raised error, or the listing
\* of user names with their dn; with the filters of its account searches
Outcome(kind, listing, filters) == [kind |-> kind, listing |-> listing, filters |-> filters]

\* the listing of a set of accounts
ListingOf(accounts, lower) ==
    LET name(dn) == IF lower THEN Lower(UidOf(dn)) ELSE UidOf(dn)
    IN  [n \in {name(dn) : dn \in accounts} |-> CHOOSE dn \in accounts : name(dn) = n]

\* LDAPConn.get_group_members_ldap
GetGroupMembersLdap(lk, result) ==
    LET entry == result[Len(result)]
        filter == IF lk.openldap_type = "groupofnames" THEN {AnyObjectFilter} ELSE {UserFilter}
    IN  IF entry.members = {}
        THEN Outcome("listing", <<>>, {})
        ELSE Outcome("listing", ListingOf(SearchAccounts(entry.members, filter), FALSE), {filter})

\* get_group_members_active_directory with the disabled filter in recursive
\* mode only
GetGroupMembersActiveDirectoryRecursiveOnly(lk, result) ==
    LET entries == RemoveAdReferrals(result)
        recursive_filter == {UserFilter, MemberOfFilter}
                               \cup (IF lk.skipdisabled THEN {DisabledFilter} ELSE {})
        flat_filter == {UserFilter}
    IN  IF entries = <<>>
        THEN Outcome("listing", <<>>, {})
        ELSE IF lk.recursive
        THEN Outcome("listing",
                     ListingOf(SearchAccounts(lk.nested, recursive_filter), ~lk.ldap_accountids),
                     {recursive_filter})
        ELSE IF \E i \in DOMAIN entries : entries[i].members = {}
        THEN Outcome("raised", <<>>, {})
        ELSE Outcome("listing",
                     ListingOf(SearchAccounts(UNION {entries[i].members : i \in DOMAIN entries},
                                              flat_filter),
                               ~lk.ldap_accountids),
                     {flat_filter})

\* LDAPConn.get_group_members_active_directory
GetGroupMembersActiveDirectory(lk, result) ==
    LET entries == RemoveAdReferrals(result)
        recursive_filter == {UserFilter, MemberOfFilter}
                               \cup (IF lk.skipdisabled THEN {DisabledFilter} ELSE {})
        flat_filter == {UserFilter} \cup (IF lk.skipdisabled THEN {DisabledFilter} ELSE {})
    IN  IF entries = <<>>
        THEN Outcome("listing", <<>>, {})
        ELSE IF lk.recursive
        THEN Outcome("listing",
                     ListingOf(SearchAccounts(lk.nested, recursive_filter), ~lk.ldap_accountids),
                     {recursive_filter})
        ELSE IF \E i \in DOMAIN entries : entries[i].members = {}
        THEN Outcome("raised", <<>>, {})
        ELSE Outcome("listing",
                     ListingOf(SearchAccounts(UNION {entries[i].members : i \in DOMAIN entries},
                                              flat_filter),
                               ~lk.ldap_accountids),
                     {flat_filter})

\* LDAPConn.get_group_members
LdapConnGetGroupMembers(lk) ==
    IF lk.result = <<>>
    THEN Outcome("none", <<>>, {})
    ELSE IF lk.active_directory
    THEN GetGroupMembersActiveDirectory(lk, lk.result)
    ELSE GetGroupMembersLdap(lk, lk.result)

LookupInit ==
    /\ NoRun
    /\ pc = "get_group_members"
    /\ lookup \in Lookups
    /\ lookup_result = None
    /\ severity = None
    /\ converted_severity = None
    /\ group_spec = None
    /\ group_spec_result = None

\* self.ldap_conn.get_group_members(group_name)
GetGroupMembersCall ==
    /\ pc = "get_group_members"
    /\ lookup_result' = LdapConnGetGroupMembers(lookup)
    /\ pc' = IF LdapConnGetGroupMembers(lookup).kind = "raised" THEN "raised" ELSE "returned"
    /\ UNCHANGED <<run_state, severity, converted_severity, group_spec, group_spec_result,
                   lookup>>

LookupNext == GetGroupMembersCall

LookupSpec == LookupInit /\ [][LookupNext]_vars

----------------------------------------------------------------------------
(* C24: a group that is not found and a group without members.             *)

\* the group entries among the entries the group search returned
GroupEntries == {lookup.result[i] : i \in {j \in DOMAIN lookup.result : lookup.result[j].dn # None}}

\* the group has no member: none by its member attribute, and in recursive
\* directory-service mode none by the member-of closure
NoMembers ==
    IF lookup.active_directory /\ lookup.recursive
    THEN lookup.nested = {}
    ELSE \A e \in GroupEntries : e.members = {}

\* C24: get_group_members returns None exactly when the search for the group
\* yields no entry, and returns the empty listing, without raising, when the
\* group entry exists and has no members; in each of the three modes.
NotFoundOrEmpty ==
    pc \in {"returned", "raised"} =>
        /\ lookup_result.kind = "none" <=> GroupEntries = {}
        /\ (GroupEntries # {} /\ NoMembers) =>
              (lookup_result.kind = "listing" /\ DOMAIN lookup_result.listing = {})

----------------------------------------------------------------------------
(* C25: the disabled-account filter in the member queries.                 *)

\* C25: a member query of get_group_members carries the disabled-account
\* filter if and only if both recursive directory-service mode and
\* skipdisabled are configured.
DisabledFilterInRecursiveModeOnly ==
    pc = "returned" =>
        \A filter \in lookup_result.filters :
           DisabledFilter \in filter
              <=> (lookup.active_directory /\ lookup.recursive /\ lookup.skipdisabled)

\* C25, amended: a member query of get_group_members carries the
\* disabled-account filter if and only if both directory-service mode, flat
\* or recursive, and skipdisabled are configured; in LDAP mode it carries none.
DisabledFilterInDirectoryServiceMode ==
    pc = "returned" =>
        \A filter \in lookup_result.filters :
           DisabledFilter \in filter <=> (lookup.active_directory /\ lookup.skipdisabled)

\* a flat directory-service lookup with skipdisabled queried the members with
\* the disabled-account filter and left the disabled account out
FlatLookupSkippedDisabled ==
    /\ pc = "returned"
    /\ lookup.active_directory /\ ~lookup.recursive /\ lookup.skipdisabled
    /\ lookup_result.filters = {{UserFilter, DisabledFilter}}
    /\ \E i \in DOMAIN lookup.result : lookup.result[i].members = {DnOne, DnTwo}
    /\ DOMAIN lookup_result.listing = {Lower(UserUpperA)}

----------------------------------------------------------------------------
(* C26: the accounts of directory users stay in the group.                 *)

\* the accounts that were members of the group when the pass began and whose
\* name, under the configured case policy, is an identity of the directory set
DirectoryAccounts0 ==
    {u \in pass0.users :
        /\ <<zabbix_group_id, u.userid>> \in pass0.members
        /\ Fold(u.alias) \in DOMAIN ldap_users}

\* C26: during the pass of a group, every account that was a member of the
\* group when the pass began and whose name is, under the configured case
\* policy, an identity of the group's directory set still exists and is
\* still a member of the group.
DirectoryAccountsAreKept ==
    pc \in {"add_missing", "add_all", "extra", "media"} =>
        \A u \in DirectoryAccounts0 :
           /\ u \in zbx.users
           /\ <<zabbix_group_id, u.userid>> \in zbx.members

\* the pass issued a deletion or removal for a member whose name differs only
\* in case from an identity of the directory set
DirectoryAccountWasAbsent ==
    /\ pc \in {"extra", "media"}
    /\ \E c \in PassCalls :
          /\ c.op \in {"delete_user", "remove_user"}
          /\ \E u \in DirectoryAccounts0 : u.alias = c.user

----------------------------------------------------------------------------
(* C27: the account ids of the mutating calls.                             *)

\* C27: every call that updates a group's members, deletes an account or
\* updates a media carries the ids of existing accounts only, never the id of
\* an account that was not resolved.
CallsCarryResolvedIds ==
    \A c \in CallsOf({"update_user", "remove_user", "delete_user", "update_media"}) :
       NoId \notin c.userids

====
